---- MODULE Spec2Model ----
(***************************************************************************)
(* CUBRID exporter: the metrics request handler (cubrid_exporter.go), the  *)
(* scrape cycle of collector.Exporter (exporter.go) and the three scrapers *)
(* (broker_status, statdump, spacedb) as a state machine.                  *)
(*                                                                         *)
(* Every inbound request is served by its own goroutine (net/http); the    *)
(* collector.Metrics value is created once in main and shared by all of    *)
(* them.  A request slot r is one such goroutine; a slot is reused by the  *)
(* next request once the response has been written.                        *)
(*                                                                         *)
(* Seconds (the timeout header, --timeout-offset) are counted in quarter   *)
(* seconds: every value used is a multiple of 0.25 and is exact in         *)
(* float64, as are their differences.                                      *)
(***************************************************************************)
EXTENDS Integers, Sequences, FiniteSets, TLC

\* ---------------------------------------------------------------- bounds

\* request goroutines that may be in flight at once
NumRequests == 2

\* requests served in one behaviour (caps the monotonic counters)
MaxScrapes == 2

\* rows a result set may hold
MaxRows == 2

\* page counts a spacedb row may carry
MaxPages == 80

\* scraper goroutines alive at once when several cycles are in flight
MaxUnits == 2

Requests == 1 .. NumRequests

\* ------------------------------------------------------- the scraper set

\* the keys of the scrapers map
AllScrapers == {"ScrapeBrokerStatus", "ScrapeStatdump", "ScrapeSpaceDBStatus"}

\* the values of the scrapers map: enabled by default
EnabledByDefault(s) == s \in {"ScrapeBrokerStatus", "ScrapeStatdump", "ScrapeSpaceDBStatus"}

\* Scraper.Name()
Name(s) ==
    CASE s = "ScrapeBrokerStatus" -> "broker_status"
      [] s = "ScrapeStatdump" -> "statdump"
      [] s = "ScrapeSpaceDBStatus" -> "spacedb"

\* label := "collect." + scraper.Name()
Label(s) == "collect." \o Name(s)

Labels == {Label(s) : s \in AllScrapers}

\* the samples one result row is turned into (the ch <- lines of the row loop)
SamplesPerRow(s) ==
    CASE s = "ScrapeBrokerStatus" -> 14
      [] s = "ScrapeStatdump" -> 1
      [] s = "ScrapeSpaceDBStatus" -> 6

\* whether the scraper's Scrape defers rows.Close()
DefersRowsClose(s) == s \in {"ScrapeBrokerStatus", "ScrapeSpaceDBStatus"}

\* whether the scraper returns the row's ParseFloat error
PropagatesParseError(s) == s = "ScrapeStatdump"

\* ---------------------------------------------------- the database's rows

\* what the queries find: the rows a result set holds at most, and the used and free
\* pages of a spacedb row
Pages == {0, 20, MaxPages}

Databases == [rows : 1 .. MaxRows, used : Pages, free : Pages]

\* the database of the runs that do not vary it
OneVolume == [rows |-> 1, used |-> 80, free |-> 20]

\* float64 values as fractions; a zero denominator is the result of a division by
\* zero (NaN or an infinity).  Rounding is not modelled.
Quotient(a, b) == [num |-> a, den |-> b]

Times(q, k) == [num |-> q.num * k, den |-> q.den]

Zero == [num |-> 0, den |-> 1]

\* spacedb: the value of the "usedPercentage" sample of a row
UsedPercentageUnguarded(fUsedPagesValue, fFreePagesValue) ==
    Times(Quotient(fUsedPagesValue, fUsedPagesValue + fFreePagesValue), 100)

UsedPercentage(fUsedPagesValue, fFreePagesValue) ==
    LET average == Times(Quotient(fUsedPagesValue, fUsedPagesValue + fFreePagesValue), 100)
    IN IF fUsedPagesValue = 0 THEN Zero ELSE average

\* --------------------------------------------------------- request inputs

NoRequest == [header |-> "-", params |-> <<>>]

\* values of the X-Prometheus-Scrape-Timeout-Seconds header ("" is absent)
Headers == {"", "abc", "1.0", "0.25", "2.0", "0", "-1.0"}

\* names a collect[] parameter may carry
ParamNames == {"broker_status", "statdump", "spacedb", "bogus"}

\* the collect[] values of a request, in order, repeats included
ParamLists ==
    {<<>>} \cup {<<a>> : a \in ParamNames}
           \cup {<<a, b>> : a \in ParamNames, b \in ParamNames}

\* values of --timeout-offset, in quarter seconds (0.25 is the default)
Offsets == {1, 8}

\* strconv.ParseFloat(v, 64) on the header values, in quarter seconds
ParseFloat(v) ==
    CASE v = "1.0" -> [ok |-> TRUE, val |-> 4]
      [] v = "0.25" -> [ok |-> TRUE, val |-> 1]
      [] v = "2.0" -> [ok |-> TRUE, val |-> 8]
      [] v = "0" -> [ok |-> TRUE, val |-> 0]
      [] v = "-1.0" -> [ok |-> TRUE, val |-> -4]
      [] OTHER -> [ok |-> FALSE, val |-> 0]

\* time.Duration(timeoutSeconds*float64(time.Second)), in nanoseconds
Duration(q) == q * 250000000

\* the offset handling of the handler: the seconds handed to WithTimeout
TimeoutAlwaysSubtracted(timeoutSeconds, offset) == timeoutSeconds - offset

EffectiveTimeout(timeoutSeconds, offset) ==
    IF offset >= timeoutSeconds
    THEN timeoutSeconds
    ELSE timeoutSeconds - offset

\* filters[param] = true for every param
Filters(params) == {params[i] : i \in 1 .. Len(params)}

\* the scrapers kept by the collect[] filter
FilterIgnored(params, scrapers) == scrapers

FilterWithoutParams(params, scrapers) == {s \in scrapers : Name(s) \in Filters(params)}

FilterRegistered(params, scrapers) ==
    IF Len(params) > 0
    THEN {s \in AllScrapers : Name(s) \in Filters(params)}
    ELSE scrapers

FilterScrapers(params, scrapers) ==
    IF Len(params) > 0
    THEN {s \in scrapers : Name(s) \in Filters(params)}
    ELSE scrapers

\* ------------------------------------------------------------------ state

VARIABLES
    enabledScrapers,   \* main: the scrapers whose --collect.<name> flag is set
    timeoutOffset,     \* main: --timeout-offset, in quarter seconds
    database,          \* the CUBRID server's tables, as the queries find them
    TotalScrapes,      \* Metrics.TotalScrapes (counter)
    ScrapeErrors,      \* Metrics.ScrapeErrors (counter vector, by label; 0: no child yet)
    Error,             \* Metrics.Error (gauge)
    CubridUp,          \* Metrics.CubridUp (gauge)
    pc,                \* where each request's goroutine stands
    request,           \* the inbound request: its timeout header and collect[] values
    timeoutSeconds,    \* handler local: the seconds handed to context.WithTimeout
    ctx,               \* the context the cycle is bound to
    filteredScrapers,  \* handler local, then Exporter.scrapers
    db,                \* scrape local: the *sql.DB, its state ("nil", "open",
                       \* "closed") and which handle it is
    opens,             \* sql.Open calls of the cycle
    closes,            \* db.Close calls of the cycle
    conn,              \* who holds the one pooled connection ("free" or a scraper)
    wg,                \* scrape local: the sync.WaitGroup counter
    unit,              \* the goroutine launched for each scraper: where it stands, the
                       \* rows it has read, its rows' error (what rows.Err() would
                       \* return), whether Scrape returned an error, and its
                       \* increments of the error counter
    out                \* what the cycle has written to ch

config == <<enabledScrapers, timeoutOffset, database>>
metrics == <<TotalScrapes, ScrapeErrors, Error, CubridUp>>
handler == <<request, timeoutSeconds, ctx, filteredScrapers>>
cycle == <<db, opens, closes, conn, wg, unit, out>>
vars == <<config, metrics, pc, handler, cycle>>

NoTimeout == [set |-> FALSE, ns |-> 0]
NoContext == [deadline |-> FALSE, err |-> "none"]
NoUnit == [pc |-> "none", rows |-> 0, lasterr |-> "none", failed |-> FALSE, incs |-> 0]
NoOutput ==
    [connection |-> 0,
     data |-> [s \in AllScrapers |-> 0],
     usedPercentage |-> Zero,
     duration |-> [s \in AllScrapers |-> 0],
     book |-> {}]
NoDB == [state |-> "nil", id |-> 0]

\* NewMetrics, and a handler goroutine before its request arrives
main(flags, offsets, databases) ==
    /\ enabledScrapers \in flags
    /\ timeoutOffset \in offsets
    /\ database \in databases
    /\ TotalScrapes = 0
    /\ ScrapeErrors = [l \in Labels |-> 0]
    /\ Error = 0
    /\ CubridUp = 0
    /\ pc = [r \in Requests |-> "idle"]
    /\ request = [r \in Requests |-> NoRequest]
    /\ timeoutSeconds = [r \in Requests |-> NoTimeout]
    /\ ctx = [r \in Requests |-> NoContext]
    /\ filteredScrapers = [r \in Requests |-> {}]
    /\ db = [r \in Requests |-> NoDB]
    /\ opens = [r \in Requests |-> 0]
    /\ closes = [r \in Requests |-> 0]
    /\ conn = [r \in Requests |-> "free"]
    /\ wg = [r \in Requests |-> 0]
    /\ unit = [r \in Requests |-> [s \in AllScrapers |-> NoUnit]]
    /\ out = [r \in Requests |-> NoOutput]

\* the exporter started with any flags
Init == main(SUBSET AllScrapers, Offsets, {OneVolume})

\* the exporter started without flags: every scraper at its default, the offset 0.25
DefaultFlags == {{s \in AllScrapers : EnabledByDefault(s)}}

DefaultInit == main(DefaultFlags, {1}, {OneVolume})

\* ------------------------------------------------------- the model's caps

\* the scraper goroutines request r will launch or has launched
Reserved(r) ==
    IF pc[r] = "idle" THEN 0
    ELSE IF pc[r] = "received"
         THEN Cardinality(FilterScrapers(request[r].params, enabledScrapers))
         ELSE Cardinality(filteredScrapers[r])

RECURSIVE SumReserved(_)
SumReserved(R) ==
    IF R = {} THEN 0
    ELSE LET r == CHOOSE x \in R : TRUE IN Reserved(r) + SumReserved(R \ {r})

\* requests received whose cycle has not counted itself yet
Uncounted == {r \in Requests : pc[r] \in {"received", "parsed", "scrape"}}

\* ------------------------------------------------------------ the handler

\* net/http hands a request to a handler goroutine; ctx := r.Context()
Receive(r, H, P) ==
    /\ pc[r] = "idle"
    /\ TotalScrapes + Cardinality(Uncounted) < MaxScrapes
    /\ \E h \in H, p \in P :
        /\ \/ \A q \in Requests : pc[q] = "idle"
           \/ SumReserved(Requests) + Cardinality(FilterScrapers(p, enabledScrapers)) <= MaxUnits
        /\ request' = [request EXCEPT ![r] = [header |-> h, params |-> p]]
    /\ pc' = [pc EXCEPT ![r] = "received"]
    /\ UNCHANGED <<config, metrics, timeoutSeconds, ctx, filteredScrapers, cycle>>

\* the context after context.WithTimeout(ctx, d): a duration d <= 0 is expired at once
WithTimeout(parent, ns) ==
    [deadline |-> TRUE,
     err |-> IF parent.err # "none" THEN parent.err
             ELSE IF ns <= 0 THEN "deadline" ELSE "none"]

\* the timeout header: the duration handed to WithTimeout and the context bound to
\* the cycle
DeriveContextUnchecked(parent, v, offset) ==
    LET ns == Duration(EffectiveTimeout(ParseFloat(v).val, offset))
    IN IF v # ""
       THEN [timeoutSeconds |-> [set |-> TRUE, ns |-> ns], ctx |-> WithTimeout(parent, ns)]
       ELSE [timeoutSeconds |-> NoTimeout, ctx |-> parent]

DeriveContext(parent, v, offset) ==
    LET parsed == ParseFloat(v)
        ns == Duration(EffectiveTimeout(parsed.val, offset))
    IN IF v # "" /\ parsed.ok
       THEN [timeoutSeconds |-> [set |-> TRUE, ns |-> ns], ctx |-> WithTimeout(parent, ns)]
       ELSE [timeoutSeconds |-> NoTimeout, ctx |-> parent]

\* newHandler's closure up to the collect[] filter: the timeout header and the filter
ServeHTTP(r) ==
    /\ pc[r] = "received"
    /\ LET derived == DeriveContext(ctx[r], request[r].header, timeoutOffset)
       IN /\ timeoutSeconds' = [timeoutSeconds EXCEPT ![r] = derived.timeoutSeconds]
          /\ ctx' = [ctx EXCEPT ![r] = derived.ctx]
    /\ filteredScrapers' =
         [filteredScrapers EXCEPT ![r] = FilterScrapers(request[r].params, enabledScrapers)]
    /\ pc' = [pc EXCEPT ![r] = "parsed"]
    /\ UNCHANGED <<config, metrics, request, cycle>>

\* collector.New and the registry; promhttp's handler then calls Collect, which calls
\* scrape.  The header, the parameters and timeoutSeconds are not read again.
NewExporter(r) ==
    /\ pc[r] = "parsed"
    /\ request' = [request EXCEPT ![r] = NoRequest]
    /\ timeoutSeconds' = [timeoutSeconds EXCEPT ![r] = NoTimeout]
    /\ pc' = [pc EXCEPT ![r] = "scrape"]
    /\ UNCHANGED <<config, metrics, ctx, filteredScrapers, cycle>>

\* the timer of the derived context fires
DeadlineExpires(r) ==
    /\ pc[r] \notin {"idle", "received"}
    /\ ctx[r].deadline
    /\ ctx[r].err = "none"
    /\ ctx' = [ctx EXCEPT ![r].err = "deadline"]
    /\ UNCHANGED <<config, metrics, pc, request, timeoutSeconds, filteredScrapers, cycle>>

\* the client closes its connection: the request's context is cancelled
ClientDisconnects(r) ==
    /\ pc[r] # "idle"
    /\ ctx[r].err = "none"
    /\ ctx' = [ctx EXCEPT ![r].err = "canceled"]
    /\ UNCHANGED <<config, metrics, pc, request, timeoutSeconds, filteredScrapers, cycle>>

\* ---------------------------------------------------- Exporter.scrape

Sample(name, label, value) == [name |-> name, label |-> label, value |-> value]

\* scrape starts without counting itself
ScrapeBeginUncounted(r) ==
    /\ pc[r] = "scrape"
    /\ pc' = [pc EXCEPT ![r] = "open"]
    /\ UNCHANGED <<config, metrics, handler, cycle>>

\* e.metrics.TotalScrapes.Inc()
ScrapeBegin(r) ==
    /\ pc[r] = "scrape"
    /\ TotalScrapes' = TotalScrapes + 1
    /\ pc' = [pc EXCEPT ![r] = "open"]
    /\ UNCHANGED <<config, ScrapeErrors, Error, CubridUp, handler, cycle>>

\* sql.Open returns a new *sql.DB: the handle of this cycle and of no other
OpenShared(r) == [state |-> "open", id |-> 1]

Open(r) == [state |-> "open", id |-> r]

\* db, err := sql.Open("cubrid", e.dsn), then defer db.Close() and the pool's caps
OpenSucceeds(r) ==
    /\ pc[r] = "open"
    /\ opens' = [opens EXCEPT ![r] = @ + 1]
    /\ db' = [db EXCEPT ![r] = Open(r)]
    /\ pc' = [pc EXCEPT ![r] = "up"]
    /\ UNCHANGED <<config, metrics, handler, closes, conn, wg, unit, out>>

\* sql.Open returns an error
OpenFails(r) ==
    /\ pc[r] = "open"
    /\ opens' = [opens EXCEPT ![r] = @ + 1]
    /\ pc' = [pc EXCEPT ![r] = "openfail"]
    /\ UNCHANGED <<config, metrics, handler, db, closes, conn, wg, unit, out>>

\* the error branch falls through to the rest of scrape
OpenFailedContinues(r) ==
    /\ pc[r] = "openfail"
    /\ Error' = 1
    /\ pc' = [pc EXCEPT ![r] = "connection"]
    /\ UNCHANGED <<config, TotalScrapes, ScrapeErrors, CubridUp, handler, cycle>>

\* if err != nil { e.metrics.Error.Set(1); return }
OpenFailed(r) ==
    /\ pc[r] = "openfail"
    /\ Error' = 1
    /\ pc' = [pc EXCEPT ![r] = "collect"]
    /\ UNCHANGED <<config, TotalScrapes, ScrapeErrors, CubridUp, handler, cycle>>

\* the cycle goes on without setting the up gauge
SetUpSkipped(r) ==
    /\ pc[r] = "up"
    /\ pc' = [pc EXCEPT ![r] = "reset"]
    /\ UNCHANGED <<config, metrics, handler, cycle>>

\* e.metrics.CubridUp.Set(1)
SetUp(r) ==
    /\ pc[r] = "up"
    /\ CubridUp' = 1
    /\ pc' = [pc EXCEPT ![r] = "reset"]
    /\ UNCHANGED <<config, TotalScrapes, ScrapeErrors, Error, handler, cycle>>

\* e.metrics.Error.Set(0)
ResetError(r) ==
    /\ pc[r] = "reset"
    /\ Error' = 0
    /\ pc' = [pc EXCEPT ![r] = "connection"]
    /\ UNCHANGED <<config, TotalScrapes, ScrapeErrors, CubridUp, handler, cycle>>

\* ch <- the duration sample labelled "connection"
ConnectionSample(r) ==
    /\ pc[r] = "connection"
    /\ out' = [out EXCEPT ![r].connection = @ + 1]
    /\ pc' = [pc EXCEPT ![r] = "launch"]
    /\ UNCHANGED <<config, metrics, handler, db, opens, closes, conn, wg, unit>>

\* one turn of the range loop: wg.Add(1); go func(scraper) {...}(scraper)
Launch(r, s) ==
    /\ pc[r] = "launch"
    /\ s \in filteredScrapers[r]
    /\ unit[r][s].pc = "none"
    /\ wg' = [wg EXCEPT ![r] = @ + 1]
    /\ unit' = [unit EXCEPT ![r][s].pc = "query"]
    /\ UNCHANGED <<config, metrics, pc, handler, db, opens, closes, conn, out>>

\* when the deferred wg.Wait() returns
NotJoined(r) == TRUE

Joined(r) == wg[r] = 0

\* scrape returns to its deferred db.Close() without waiting for the goroutines
WaitSkipped(r) ==
    /\ pc[r] = "launch"
    /\ \A s \in filteredScrapers[r] : unit[r][s].pc # "none"
    /\ pc' = [pc EXCEPT ![r] = "close"]
    /\ UNCHANGED <<config, metrics, handler, cycle>>

\* the loop is over and scrape returns: wg.Wait() (deferred last, so it runs first)
Wait(r) ==
    /\ pc[r] = "launch"
    /\ \A s \in filteredScrapers[r] : unit[r][s].pc # "none"
    /\ Joined(r)
    /\ pc' = [pc EXCEPT ![r] = "close"]
    /\ UNCHANGED <<config, metrics, handler, cycle>>

\* scrape returns without closing the pool
CloseSkipped(r) ==
    /\ pc[r] = "close"
    /\ pc' = [pc EXCEPT ![r] = "collect"]
    /\ UNCHANGED <<config, metrics, handler, cycle>>

\* the deferred db.Close(): the pool and its open rows are closed
Close(r) ==
    /\ pc[r] = "close"
    /\ db' = [db EXCEPT ![r].state = "closed"]
    /\ closes' = [closes EXCEPT ![r] = @ + 1]
    /\ conn' = [conn EXCEPT ![r] = "free"]
    /\ pc' = [pc EXCEPT ![r] = "collect"]
    /\ UNCHANGED <<config, metrics, handler, opens, wg, unit, out>>

\* --------------------------------------------- the goroutine of a scraper

\* db.QueryContext(ctx, query) returns an error: the context is done, the pool is
\* closed, or the server refuses the query
QueryFails(r, s) ==
    /\ unit[r][s].pc = "query"
    /\ \/ ctx[r].err # "none"
       \/ db[r].state = "closed"
       \/ conn[r] = "free"
    /\ unit' = [unit EXCEPT ![r][s].pc = "error", ![r][s].failed = TRUE]
    /\ UNCHANGED <<config, metrics, pc, handler, db, opens, closes, conn, wg, out>>

\* db.QueryContext(ctx, query) takes the pool's one connection and returns rows
QuerySucceeds(r, s) ==
    /\ unit[r][s].pc = "query"
    /\ ctx[r].err = "none"
    /\ db[r].state = "open"
    /\ conn[r] = "free"
    /\ conn' = [conn EXCEPT ![r] = s]
    /\ unit' = [unit EXCEPT ![r][s].pc = "rows"]
    /\ UNCHANGED <<config, metrics, pc, handler, db, opens, closes, wg, out>>

\* rows.Next() is true, Scan succeeds and the row's samples are sent (a field that
\* does not parse is sent as 0 by broker_status and spacedb)
Row(r, s) ==
    /\ unit[r][s].pc = "rows"
    /\ unit[r][s].rows < database.rows
    /\ unit' = [unit EXCEPT ![r][s].rows = @ + 1]
    /\ out' = [out EXCEPT ![r].data[s] = @ + SamplesPerRow(s),
                          ![r].usedPercentage =
                              IF s = "ScrapeSpaceDBStatus"
                              THEN UsedPercentage(database.used, database.free)
                              ELSE @]
    /\ UNCHANGED <<config, metrics, pc, handler, db, opens, closes, conn, wg>>

\* rows.Next() is false: the result set is over (or broke) and database/sql has
\* closed it; Scrape returns nil without looking at rows.Err()
RowsEnd(r, s) ==
    /\ unit[r][s].pc = "rows"
    /\ conn' = [conn EXCEPT ![r] = IF @ = s THEN "free" ELSE @]
    /\ unit' = [unit EXCEPT ![r][s].pc = "duration"]
    /\ UNCHANGED <<config, metrics, pc, handler, db, opens, closes, wg, out>>

\* the pooled connection after Scrape returns an error from inside the row loop
ReleaseOnReturn(r, s) ==
    IF DefersRowsClose(s) /\ conn[r] = s THEN "free" ELSE conn[r]

\* rows.Scan returns an error and Scrape returns it
ScanFails(r, s) ==
    /\ unit[r][s].pc = "rows"
    /\ unit[r][s].rows < database.rows
    /\ conn' = [conn EXCEPT ![r] = ReleaseOnReturn(r, s)]
    /\ unit' = [unit EXCEPT ![r][s].pc = "error", ![r][s].failed = TRUE]
    /\ UNCHANGED <<config, metrics, pc, handler, db, opens, closes, wg, out>>

\* the row's sample is sent before the error is returned
ParseFailsAfterSample(r, s) ==
    /\ PropagatesParseError(s)
    /\ unit[r][s].pc = "rows"
    /\ unit[r][s].rows < database.rows
    /\ conn' = [conn EXCEPT ![r] = ReleaseOnReturn(r, s)]
    /\ unit' = [unit EXCEPT ![r][s].pc = "parseerror", ![r][s].failed = TRUE]
    /\ out' = [out EXCEPT ![r].data[s] = @ + SamplesPerRow(s)]
    /\ UNCHANGED <<config, metrics, pc, handler, db, opens, closes, wg>>

\* statdump: strconv.ParseFloat(value, 64) returns an error and Scrape returns it
ParseFails(r, s) ==
    /\ PropagatesParseError(s)
    /\ unit[r][s].pc = "rows"
    /\ unit[r][s].rows < database.rows
    /\ conn' = [conn EXCEPT ![r] = ReleaseOnReturn(r, s)]
    /\ unit' = [unit EXCEPT ![r][s].pc = "parseerror", ![r][s].failed = TRUE]
    /\ UNCHANGED <<config, metrics, pc, handler, db, opens, closes, wg, out>>

\* database/sql (Rows.awaitDone): the context is done, so the open rows are closed
\* and their connection goes back to the pool
AwaitDone(r) ==
    /\ ctx[r].err # "none"
    /\ conn[r] # "free"
    /\ conn' = [conn EXCEPT ![r] = "free"]
    /\ unit' = [unit EXCEPT ![r][conn[r]].pc = IF @ = "rows" THEN "rowsclosed" ELSE @,
                            ![r][conn[r]].lasterr =
                                IF unit[r][conn[r]].pc = "rows" THEN ctx[r].err ELSE @]
    /\ UNCHANGED <<config, metrics, pc, handler, db, opens, closes, wg, out>>

\* the rows were closed under the loop: rows.Next() is false and Scrape returns nil
ClosedRowsEnd(r, s) ==
    /\ unit[r][s].pc = "rowsclosed"
    /\ unit' = [unit EXCEPT ![r][s].pc = "duration"]
    /\ UNCHANGED <<config, metrics, pc, handler, db, opens, closes, conn, wg, out>>

\* the rows were closed between Next and Scan: Scan returns an error
ClosedRowsScanFails(r, s) ==
    /\ unit[r][s].pc = "rowsclosed"
    /\ unit' = [unit EXCEPT ![r][s].pc = "error", ![r][s].failed = TRUE]
    /\ UNCHANGED <<config, metrics, pc, handler, db, opens, closes, conn, wg, out>>

\* e.metrics.ScrapeErrors.WithLabelValues(label).Inc()
ErrorInc(r, s) ==
    /\ unit[r][s].pc \in {"error", "parseerror"}
    /\ ScrapeErrors' = [ScrapeErrors EXCEPT ![Label(s)] = @ + 1]
    /\ unit' = [unit EXCEPT ![r][s].pc = "errorset", ![r][s].incs = @ + 1]
    /\ UNCHANGED <<config, TotalScrapes, Error, CubridUp, pc, handler,
                   db, opens, closes, conn, wg, out>>

\* the goroutine returns after Error.Set(1), sending no duration sample
ErrorSetReturns(r, s) ==
    /\ unit[r][s].pc = "errorset"
    /\ Error' = 1
    /\ unit' = [unit EXCEPT ![r][s].pc = "sent"]
    /\ UNCHANGED <<config, TotalScrapes, ScrapeErrors, CubridUp, pc, handler,
                   db, opens, closes, conn, wg, out>>

\* e.metrics.Error.Set(1)
ErrorSet(r, s) ==
    /\ unit[r][s].pc = "errorset"
    /\ Error' = 1
    /\ unit' = [unit EXCEPT ![r][s].pc = "duration"]
    /\ UNCHANGED <<config, TotalScrapes, ScrapeErrors, CubridUp, pc, handler,
                   db, opens, closes, conn, wg, out>>

\* ch <- the duration sample labelled label
DurationSample(r, s) ==
    /\ unit[r][s].pc = "duration"
    /\ out' = [out EXCEPT ![r].duration[s] = @ + 1]
    /\ unit' = [unit EXCEPT ![r][s].pc = "sent"]
    /\ UNCHANGED <<config, metrics, pc, handler, db, opens, closes, conn, wg>>

\* the deferred wg.Done()
Done(r, s) ==
    /\ unit[r][s].pc = "sent"
    /\ wg' = [wg EXCEPT ![r] = @ - 1]
    /\ unit' = [unit EXCEPT ![r][s].pc = "done"]
    /\ UNCHANGED <<config, metrics, pc, handler, db, opens, closes, conn, out>>

\* --------------------------------------------------- Exporter.Collect

\* the children of the counter vector, as ScrapeErrors.Collect sends them
ErrorChildren == {Sample("scrape_errors_total", l, ScrapeErrors[l]) : l \in {k \in Labels : ScrapeErrors[k] > 0}}

\* after scrape: ch <- TotalScrapes; ch <- Error; ScrapeErrors.Collect(ch); ch <- CubridUp
Collect(r) ==
    /\ pc[r] = "collect"
    /\ out' = [out EXCEPT ![r].book =
                 @ \cup {Sample("scrapes_total", "", TotalScrapes),
                         Sample("last_scrape_error", "", Error),
                         Sample("up", "", CubridUp)}
                   \cup ErrorChildren]
    /\ pc' = [pc EXCEPT ![r] = "respond"]
    /\ UNCHANGED <<config, metrics, handler, db, opens, closes, conn, wg, unit>>

\* the response is written and the handler returns (defer cancel()); the request's
\* exporter, registry, context and channel are dropped
Respond(r) ==
    /\ pc[r] = "respond"
    /\ pc' = [pc EXCEPT ![r] = "idle"]
    /\ ctx' = [ctx EXCEPT ![r] = NoContext]
    /\ filteredScrapers' = [filteredScrapers EXCEPT ![r] = {}]
    /\ db' = [db EXCEPT ![r] = NoDB]
    /\ opens' = [opens EXCEPT ![r] = 0]
    /\ closes' = [closes EXCEPT ![r] = 0]
    /\ conn' = [conn EXCEPT ![r] = "free"]
    /\ wg' = [wg EXCEPT ![r] = 0]
    /\ unit' = [unit EXCEPT ![r] = [s \in AllScrapers |-> NoUnit]]
    /\ out' = [out EXCEPT ![r] = NoOutput]
    /\ UNCHANGED <<config, metrics, request, timeoutSeconds>>

\* ---------------------------------------------------------- specification

\* the steps of a scraper's goroutine
UnitStep(r, s) ==
    \/ Launch(r, s)
    \/ QueryFails(r, s)
    \/ QuerySucceeds(r, s)
    \/ Row(r, s)
    \/ RowsEnd(r, s)
    \/ ScanFails(r, s)
    \/ ParseFails(r, s)
    \/ ClosedRowsEnd(r, s)
    \/ ClosedRowsScanFails(r, s)
    \/ ErrorInc(r, s)
    \/ ErrorSet(r, s)
    \/ DurationSample(r, s)
    \/ Done(r, s)

\* the steps of the goroutines that serve a request: the handler's, database/sql's
\* and the scrapers'
Goroutines(r) ==
    \/ ServeHTTP(r)
    \/ NewExporter(r)
    \/ ScrapeBegin(r)
    \/ OpenSucceeds(r)
    \/ OpenFails(r)
    \/ OpenFailed(r)
    \/ SetUp(r)
    \/ ResetError(r)
    \/ ConnectionSample(r)
    \/ Wait(r)
    \/ Close(r)
    \/ AwaitDone(r)
    \/ Collect(r)
    \/ Respond(r)
    \/ \E s \in AllScrapers : UnitStep(r, s)

\* the steps of a request after its arrival
Step(r) ==
    \/ Goroutines(r)
    \/ DeadlineExpires(r)
    \/ ClientDisconnects(r)

\* Requests served concurrently by an exporter started with its default flags.  The
\* requests carry no timeout header or "1.0", and one of a few collect[] lists.
ConcurrentHeaders == {"", "1.0"}

ConcurrentParams == {<<>>, <<"statdump">>, <<"broker_status", "statdump">>, <<"bogus">>}

Next ==
    \E r \in Requests :
        \/ Receive(r, ConcurrentHeaders, ConcurrentParams)
        \/ Step(r)

Spec == DefaultInit /\ [][Next]_vars

\* One request at a time, with every header value and every collect[] list.
HandlerNext ==
    \/ Receive(1, Headers, ParamLists)
    \/ Step(1)

HandlerSpec == Init /\ [][HandlerNext]_vars

\* One request at a time for one scraper, against every database.
ScraperParams == {<<"statdump">>, <<"spacedb">>}

ScraperInit == main(DefaultFlags, {1}, Databases)

ScraperNext ==
    \/ Receive(1, ConcurrentHeaders, ScraperParams)
    \/ Step(1)

ScraperSpec == ScraperInit /\ [][ScraperNext]_vars

\* One request at a time whose goroutines keep running: a goroutine that can take a
\* step takes one, and the timer of a deadline fires.  A client need not disconnect.
FairParams == {<<"statdump">>, <<"broker_status", "statdump">>}

FairNext ==
    \/ Receive(1, ConcurrentHeaders, FairParams)
    \/ Step(1)

FairSpec ==
    /\ DefaultInit
    /\ [][FairNext]_vars
    /\ WF_vars(Goroutines(1))
    /\ WF_vars(DeadlineExpires(1))

\* ------------------------------------------------------------ the claims

\* Collect has returned for request r
Collected(r) == pc[r] = "respond"

\* sql.Open succeeded in the cycle of request r
Opened(r) == out[r].connection = 1

\* the scraper goroutines the cycle of request r has launched
Launched(r) == {s \in AllScrapers : unit[r][s].pc # "none"}

\* Scrape has returned in the goroutine of s
Returned(r, s) == unit[r][s].pc \in {"error", "parseerror", "errorset", "duration", "sent", "done"}

\* the cycle of request r has sent the gauge or counter `name` with this value
Emitted(r, name, value) == Sample(name, "", value) \in out[r].book

\* the handler of request r takes its step from the header and collect[] to the
\* context and the scraper list
Handled(r) == pc[r] = "received" /\ pc'[r] = "parsed"

\* the cycle of request r has joined its goroutines
Over(r) == pc[r] \in {"close", "collect", "respond"}

\* the cycle of request r ran each scraper of S once and no other
RanExactly(r, S) ==
    /\ Launched(r) = S
    /\ \A s \in AllScrapers : out[r].duration[s] = IF s \in S THEN 1 ELSE 0

\* the scrapers of `among` that a collect[] list names
Named(params, among) ==
    {s \in among : \E i \in 1 .. Len(params) : params[i] = Name(s)}

\* C1: in a cycle whose connection opened, if scraper A's Scrape returned an error
\* and scraper B's succeeded, then the output holds every sample B wrote, the cycle
\* incremented the error counter of collect.<A> exactly once, and the
\* last-scrape-error gauge the cycle emitted is 1.
C1_FailureIsolated ==
    \A r \in Requests :
        Collected(r) /\ Opened(r) =>
            \A a, b \in Launched(r) :
                unit[r][a].failed /\ ~unit[r][b].failed =>
                    /\ out[r].data[b] = unit[r][b].rows * SamplesPerRow(b)
                    /\ unit[r][a].incs = 1
                    /\ Emitted(r, "last_scrape_error", 1)

\* The part of C1 that no other cycle can disturb (it holds under Spec): B's
\* samples are in the output and A's counter was incremented once by the cycle.
\* The whole of C1_FailureIsolated holds under HandlerSpec, where cycles do not
\* overlap.
SamplesAndCounterIsolated ==
    \A r \in Requests :
        Collected(r) /\ Opened(r) =>
            \A a, b \in Launched(r) :
                unit[r][a].failed /\ ~unit[r][b].failed =>
                    /\ out[r].data[b] = unit[r][b].rows * SamplesPerRow(b)
                    /\ unit[r][a].incs = 1

\* once a bookkeeping sample is sent or Collect has returned, every launched
\* goroutine has finished (and every scraper of the cycle was launched)
AllJoined ==
    \A r \in Requests :
        out[r].book # {} \/ Collected(r) =>
            /\ wg[r] = 0
            /\ \A s \in AllScrapers : unit[r][s].pc \in {"none", "done"}
            /\ Opened(r) => Launched(r) = filteredScrapers[r]

\* once Collect has returned, nothing more is written to the cycle's channel
NothingAfterReturn ==
    \A r \in Requests :
        Collected(r) /\ pc'[r] # "idle" => out'[r] = out[r]

\* C2: the bookkeeping samples and the return of Collect come after every launched
\* scraper goroutine has finished, and no scraper sample or duration sample is
\* written to the cycle's channel once Collect has returned.
C2_BookkeepingAfterJoin == []AllJoined /\ [][NothingAfterReturn]_vars

\* a cycle with two finished scraper goroutines has returned from Collect
C2_Witness ==
    \E r \in Requests :
        /\ Collected(r)
        /\ Cardinality({s \in AllScrapers : unit[r][s].pc = "done" /\ out[r].duration[s] = 1}) >= 2
        /\ out[r].book # {}

\* C3 as stated: every cycle makes one open attempt and closes its connection
\* exactly once on every exit path, the open failure included.
C3_ClosedOnEveryPath ==
    \A r \in Requests :
        Collected(r) => opens[r] = 1 /\ closes[r] = 1 /\ db[r].state # "open"

\* C3, amended: every cycle makes one open attempt; a connection that opened is
\* closed exactly once before Collect sends its samples, whether scrapers failed or
\* the context was cancelled; when the open fails there is no connection and
\* nothing is closed; no connection is left open or closed twice.
C3_ClosedOnceIfOpened ==
    \A r \in Requests :
        /\ opens[r] <= 1
        /\ closes[r] <= 1
        /\ pc[r] \in {"collect", "respond"} =>
            /\ opens[r] = 1
            /\ db[r].state # "open"
            /\ closes[r] = IF Opened(r) THEN 1 ELSE 0

\* a cycle that opened, with a scraper that failed and a cancelled context, is over
C3_Witness ==
    \E r \in Requests :
        /\ Collected(r)
        /\ Opened(r)
        /\ closes[r] = 1
        /\ ctx[r].err # "none"
        /\ \E s \in Launched(r) : unit[r][s].failed

\* C4: when the open fails the cycle launches no scraper, and the up gauge it emits
\* is 0 and the last-scrape-error gauge it emits is 1, whatever earlier cycles left.
C4_OpenFailureSetsDown ==
    \A r \in Requests :
        Collected(r) /\ ~Opened(r) =>
            /\ Launched(r) = {}
            /\ Emitted(r, "up", 0)
            /\ Emitted(r, "last_scrape_error", 1)

\* C5 as stated: for a non-empty collect[] list S the scrapers selected for the
\* cycle are S intersected with the registered scrapers (the scrapers map).
C5_SelectsAmongRegistered ==
    [][\A r \in Requests :
          Handled(r) /\ Len(request[r].params) > 0 =>
              filteredScrapers'[r] = Named(request[r].params, AllScrapers)]_vars

\* the handler's step on a non-empty collect[] list
SelectsNamedEnabled ==
    \A r \in Requests :
        Handled(r) /\ Len(request[r].params) > 0 =>
            filteredScrapers'[r] = Named(request[r].params, enabledScrapers)

\* a cycle whose connection opened runs each selected scraper once
RunsSelectedOnce ==
    /\ \A r \in Requests : \A s \in AllScrapers : out[r].duration[s] <= 1
    /\ \A r \in Requests : Over(r) /\ Opened(r) => RanExactly(r, filteredScrapers[r])

\* C5, amended: for a non-empty collect[] list S the scrapers selected are S
\* intersected with the scrapers enabled at startup; names matching none of them
\* are dropped without error and the cycle still runs; a cycle whose connection
\* opens runs each selected scraper once, however often its name is repeated.
C5_SelectsAmongEnabled == []RunsSelectedOnce /\ [][SelectsNamedEnabled]_vars

\* an unknown name and a repeated name are dropped, all scrapers being enabled
C5_Witness ==
    \E r \in Requests :
        /\ pc[r] = "parsed"
        /\ request[r].params \in {<<"bogus", "statdump">>, <<"statdump", "statdump">>}
        /\ enabledScrapers = AllScrapers
        /\ filteredScrapers[r] = {"ScrapeStatdump"}

\* C6 as stated: without collect[] the scrapers selected are exactly the
\* default-enabled ones.
C6_SelectsDefaults ==
    [][\A r \in Requests :
          Handled(r) /\ Len(request[r].params) = 0 =>
              filteredScrapers'[r] = {s \in AllScrapers : EnabledByDefault(s)}]_vars

\* the handler's step on a request without collect[]
SelectsAllEnabled ==
    \A r \in Requests :
        Handled(r) /\ Len(request[r].params) = 0 =>
            filteredScrapers'[r] = enabledScrapers

\* a cycle whose connection opened runs scrapers enabled at startup only
RunsEnabledOnly ==
    \A r \in Requests :
        Over(r) /\ Opened(r) =>
            /\ filteredScrapers[r] \subseteq enabledScrapers
            /\ RanExactly(r, filteredScrapers[r])

\* C6, amended: without collect[] the scrapers selected are exactly the scrapers
\* enabled at startup (the default-enabled ones unless a --collect.<name> flag says
\* otherwise); a cycle whose connection opens runs each of them once and no other.
C6_SelectsEnabled == []RunsEnabledOnly /\ [][SelectsAllEnabled]_vars

\* a request without collect[] under flags that disable one scraper
C6_Witness ==
    \E r \in Requests :
        /\ pc[r] = "parsed"
        /\ request[r].header # "-"
        /\ request[r].params = <<>>
        /\ enabledScrapers = {"ScrapeBrokerStatus", "ScrapeStatdump"}
        /\ filteredScrapers[r] = enabledScrapers

\* the handler's step on a header that parses
TimeoutFromHeader ==
    \A r \in Requests :
        LET v == request[r].header
            h == ParseFloat(v).val
            o == timeoutOffset
            ns == timeoutSeconds'[r].ns
        IN Handled(r) /\ v # "" /\ ParseFloat(v).ok =>
            /\ timeoutSeconds'[r].set
            /\ ctx'[r].deadline
            /\ o < h => ns = Duration(h - o)
            /\ o >= h => ns = Duration(h)
            /\ v = "1.0" /\ o = 1 => ns = 750000000
            /\ v = "1.0" /\ o = 8 => ns = 1000000000

\* C7: for a header that parses to h and an offset o the timeout bound to the cycle
\* is h - o when o < h and h when o >= h (1.0 and 0.25 give 0.75 s, 1.0 and 2.0
\* give 1.0 s), and a deadline is set whenever the header parses.
C7_EffectiveTimeout == [][TimeoutFromHeader]_vars

\* header 1.0 with offset 2.0: the timeout is 1.0 s
C7_Witness ==
    \E r \in Requests :
        /\ pc[r] = "parsed"
        /\ request[r].header = "1.0"
        /\ timeoutOffset = 8
        /\ timeoutSeconds[r] = [set |-> TRUE, ns |-> 1000000000]
        /\ ctx[r].deadline

\* the handler's step on a header that does not parse
MalformedHeaderStep ==
    \A r \in Requests :
        LET v == request[r].header
            S == request[r].params
        IN Handled(r) /\ v # "" /\ ~ParseFloat(v).ok =>
            /\ ctx'[r] = ctx[r]
            /\ ~ctx'[r].deadline
            /\ ~timeoutSeconds'[r].set
            /\ filteredScrapers'[r] =
                 IF Len(S) > 0 THEN Named(S, enabledScrapers) ELSE enabledScrapers

\* a context without a derived deadline never ends by a deadline
NoDeadlineWithoutTimer ==
    \A r \in Requests : ~ctx[r].deadline => ctx[r].err # "deadline"

\* C8: a timeout header that does not parse does not reject the request: no
\* derived deadline is created, the cycle is bound to the request's own context,
\* and the scrapers selected are those of a request without the header.
C8_MalformedHeaderIgnored == []NoDeadlineWithoutTimer /\ [][MalformedHeaderStep]_vars

\* a request with the header "abc" has been handled and goes on to its cycle
C8_Witness ==
    \E r \in Requests :
        /\ pc[r] = "parsed"
        /\ request[r].header = "abc"
        /\ ~ctx[r].deadline
        /\ ctx[r].err = "none"
        /\ filteredScrapers[r] # {}

\* a scraper's duration sample is there once Scrape has returned and its error is
\* counted, and every scraper of a cycle that is over has one
OneDuration ==
    \A r \in Requests : \A s \in AllScrapers :
        /\ out[r].duration[s] = IF unit[r][s].pc \in {"sent", "done"} THEN 1 ELSE 0
        /\ out[r].duration[s] = 1 =>
            /\ Returned(r, s)
            /\ unit[r][s].incs = IF unit[r][s].failed THEN 1 ELSE 0
        /\ Over(r) /\ Opened(r) =>
            out[r].duration[s] = IF s \in filteredScrapers[r] THEN 1 ELSE 0

\* after its duration sample a scraper sends nothing and counts no error
DurationIsLast ==
    \A r \in Requests : \A s \in AllScrapers :
        out[r].duration[s] = 1 /\ pc'[r] # "idle" =>
            /\ out'[r].data[s] = out[r].data[s]
            /\ out'[r].duration[s] = 1
            /\ unit'[r][s].incs = unit[r][s].incs

\* C9: every launched scraper goroutine emits exactly one duration sample labelled
\* collect.<name>, whether Scrape failed or not, and only after Scrape has returned:
\* after all of the scraper's samples and after its error-counter increment.
C9_DurationAfterScrape == []OneDuration /\ [][DurationIsLast]_vars

\* a cycle is over in which one scraper failed and one succeeded after sending rows
C9_Witness ==
    \E r \in Requests : \E a, b \in AllScrapers :
        /\ Collected(r)
        /\ unit[r][a].failed /\ out[r].duration[a] = 1
        /\ ~unit[r][b].failed /\ out[r].duration[b] = 1 /\ out[r].data[b] > 0

\* C10: a scraper still running when the deadline expires (its rows were closed by
\* the expired context) is handled as a failed scraper: its error counter is
\* incremented once, the error gauge is set, and its duration sample is emitted.
C10_DeadlineCountsAsFailure ==
    \A r \in Requests : \A s \in AllScrapers :
        unit[r][s].pc = "done" /\ unit[r][s].lasterr = "deadline" =>
            /\ unit[r][s].failed
            /\ unit[r][s].incs = 1
            /\ out[r].duration[s] = 1

\* every cycle has at most one handle, a handle open in one cycle is open in no
\* other, the pooled connection and the channel of a cycle serve only the scrapers
\* that cycle launched
OwnConnection ==
    \A r \in Requests :
        /\ opens[r] <= 1
        /\ db[r].state = "open" => opens[r] = 1
        /\ \A q \in Requests \ {r} :
               db[r].state = "open" /\ db[q].state = "open" => db[r].id # db[q].id
        /\ conn[r] # "free" =>
               /\ db[r].state = "open"
               /\ conn[r] \in Launched(r)
        /\ \A s \in AllScrapers :
               out[r].data[s] > 0 \/ out[r].duration[s] > 0 =>
                   s \in Launched(r) /\ s \in filteredScrapers[r]

\* a step of a scraper goroutine of one cycle leaves the handle, the connection and
\* the channel of every other cycle alone
OwnCycleOnly ==
    \A r \in Requests :
        (\E s \in AllScrapers : unit'[r][s] # unit[r][s]) /\ pc'[r] # "idle" =>
            \A q \in Requests \ {r} :
                db'[q] = db[q] /\ conn'[q] = conn[q] /\ out'[q] = out[q]

\* C11: under any interleaving of concurrent requests each cycle opens its own
\* connection and holds at most one, every scraper unit uses only the connection and
\* the channel of the cycle that launched it, and no connection is used by scrapers of
\* two cycles.
C11_OwnConnectionPerCycle == []OwnConnection /\ [][OwnCycleOnly]_vars

\* two cycles are in flight, each with its handle open and its connection held by one
\* of its own scrapers
C11_Witness ==
    \E r, q \in Requests :
        /\ r # q
        /\ db[r].state = "open" /\ db[q].state = "open"
        /\ conn[r] # "free" /\ conn[q] # "free"

\* C12: a request without query parameters, the three default-on scrapers enabled
\* and a connection that opens: the output holds the up gauge with value 1, the
\* total-scrapes counter after the cycle's one increment, and one duration sample
\* for "connection" and one for each of the three scrapers.
C12_DefaultRequestOutput ==
    \A r \in Requests :
        /\ Collected(r)
        /\ Opened(r)
        /\ enabledScrapers = {"ScrapeBrokerStatus", "ScrapeSpaceDBStatus", "ScrapeStatdump"}
        /\ filteredScrapers[r] = enabledScrapers
        => /\ Emitted(r, "up", 1)
           /\ Emitted(r, "scrapes_total", TotalScrapes)
           /\ TotalScrapes >= 1
           /\ out[r].connection = 1
           /\ \A s \in AllScrapers : out[r].duration[s] = 1

\* such a request has been served, all three scrapers having sent their rows
C12_Witness ==
    \E r \in Requests :
        /\ Collected(r)
        /\ Opened(r)
        /\ filteredScrapers[r] = AllScrapers
        /\ Emitted(r, "up", 1)
        /\ Emitted(r, "scrapes_total", 1)
        /\ \A s \in AllScrapers : out[r].duration[s] = 1 /\ out[r].data[s] > 0

\* C13: for a spacedb row with used pages u and free pages f the usedPercentage
\* sample is u / (u + f) * 100 when u is not 0 and 0 when u is 0 (80 and 20 give 80;
\* 0 and 0 give 0, not the result of a division by zero).
C13_UsedPercentage ==
    \A r \in Requests :
        out[r].data["ScrapeSpaceDBStatus"] > 0 =>
            LET u == database.used
                f == database.free
                v == out[r].usedPercentage
            IN /\ v.den # 0
               /\ u # 0 => v.num * (u + f) = u * 100 * v.den
               /\ u = 0 => v.num = 0
               /\ u = 80 /\ f = 20 => v.num = 80 * v.den

\* a row with no used and no free page has been turned into its samples
C13_Witness ==
    \E r \in Requests :
        /\ out[r].data["ScrapeSpaceDBStatus"] > 0
        /\ database.used = 0
        /\ database.free = 0
        /\ out[r].usedPercentage = Zero

\* a request that has been served drove one cycle: one increment of the total, one
\* open attempt
OneCyclePerRequest ==
    \A r \in Requests : Collected(r) => opens[r] = 1 /\ TotalScrapes >= 1

\* C14: every request drives exactly one scrape cycle and then produces a response,
\* whether the open fails, a scraper fails, the deadline expires or the timeout
\* header is malformed.
C14_AlwaysResponds ==
    /\ []OneCyclePerRequest
    /\ \A r \in Requests : (pc[r] = "received") ~> Collected(r)

\* a request whose cycle is bound to a deadline is answered: the expired context
\* closes the rows a failed scraper left open
AnsweredUnderDeadline ==
    \A r \in Requests : (pc[r] = "parsed" /\ ctx[r].deadline) ~> Collected(r)

\* statdump has returned an error from inside its row loop while it holds the pool's
\* one connection, in a cycle without a deadline
FailedHoldingConnection(r) ==
    /\ ~ctx[r].deadline
    /\ unit[r]["ScrapeStatdump"].failed
    /\ conn[r] = "ScrapeStatdump"

\* C15: in a cycle without a deadline, the pool holding one connection, a scraper
\* that fails partway through its result set still lets every sibling obtain the
\* connection and finish: the join completes and the cycle ends.
C15_SiblingsFinish ==
    \A r \in Requests : FailedHoldingConnection(r) ~> Over(r)

\* C16: with requests served concurrently against the shared metrics, a cycle in
\* which a scraper failed still reports last-scrape-error 1 in its own bookkeeping
\* samples; the reset to 0 at the start of another cycle does not mask the failure.
C16_FailureNotMasked ==
    \A r \in Requests :
        Collected(r) /\ (\E s \in Launched(r) : unit[r][s].failed) =>
            /\ Emitted(r, "last_scrape_error", 1)
            /\ ~Emitted(r, "last_scrape_error", 0)

\* C17: for every header value that parses as a number, zero and negative values
\* included, and every offset, the timeout bound to the cycle is strictly positive:
\* the handler creates no zero or negative deadline.
C17_PositiveTimeout ==
    \A r \in Requests :
        timeoutSeconds[r].set =>
            /\ timeoutSeconds[r].ns > 0
            /\ ctx[r].err # "deadline"

\* where a request stands once its cycle has counted itself
Past == {"open", "openfail", "up", "reset", "connection", "launch", "close",
         "collect", "respond"}

\* the cycles that have counted themselves and are not over
Counted == {r \in Requests : pc[r] \in Past}

\* every cycle that has passed its increment is in the total
CountsEveryCycle ==
    TotalScrapes >= Cardinality(Counted)

\* the total changes only by the one increment at the start of a cycle, before the
\* open attempt and whatever its outcome, and a cycle can only end after it
CountsOncePerCycle ==
    /\ TotalScrapes' >= TotalScrapes
    /\ TotalScrapes' # TotalScrapes =>
           /\ TotalScrapes' = TotalScrapes + 1
           /\ Cardinality({r \in Requests : pc[r] = "scrape" /\ pc'[r] = "open"}) = 1
    /\ \A r \in Requests :
           /\ pc[r] = "scrape" /\ pc'[r] # "scrape" =>
                  pc'[r] = "open" /\ TotalScrapes' = TotalScrapes + 1
           /\ pc[r] # "scrape" /\ pc'[r] # pc[r] => TotalScrapes' = TotalScrapes
           /\ pc'[r] = "scrape" /\ pc[r] # "scrape" => pc[r] = "parsed"
           /\ pc'[r] = "idle" /\ pc[r] # "idle" => r \in Counted
           /\ r \in Counted /\ pc'[r] # "idle" => pc'[r] \in Past

\* C18: the total-scrapes counter is incremented exactly once per scrape cycle,
\* cycles whose open fails included, and is never decremented: n completed cycles
\* make it grow by exactly n.
C18_TotalScrapesCountsCycles == []CountsEveryCycle /\ [][CountsOncePerCycle]_vars

\* two cycles have been counted, the open of one having failed, and the total is 2
C18_Witness ==
    \E r \in Requests :
        /\ Collected(r)
        /\ ~Opened(r)
        /\ TotalScrapes = 2
        /\ Emitted(r, "scrapes_total", 2)

\* the open attempt of the cycle of request r has failed
OpenHasFailed(r) == opens[r] = 1 /\ db[r].state = "nil"

\* the names of the bookkeeping samples the cycle of request r has sent
BookNames(r) == {b.name : b \in out[r].book}

\* nothing was sent by scrape itself or by a scraper
NothingScraped(r) ==
    /\ out[r].connection = 0
    /\ Launched(r) = {}
    /\ \A s \in AllScrapers : out[r].data[s] = 0 /\ out[r].duration[s] = 0

\* C19 as stated: in a cycle whose open fails the samples written are only the up
\* gauge and the last-scrape-error gauge; no "connection" duration, no scraper
\* sample, no per-scraper duration and no other bookkeeping sample.
C19_OnlyUpAndError ==
    \A r \in Requests :
        OpenHasFailed(r) =>
            /\ NothingScraped(r)
            /\ BookNames(r) \subseteq {"up", "last_scrape_error"}

\* C19, amended: in a cycle whose open fails scrape sends nothing (no "connection"
\* duration, no scraper sample, no per-scraper duration) and Collect sends its four
\* bookkeeping metrics as in every cycle: the total-scrapes counter, the
\* last-scrape-error gauge, the error counters that exist, and the up gauge.
C19_OnlyBookkeeping ==
    \A r \in Requests :
        OpenHasFailed(r) =>
            /\ NothingScraped(r)
            /\ Collected(r) =>
                   /\ {"scrapes_total", "last_scrape_error", "up"} \subseteq BookNames(r)
                   /\ BookNames(r) \subseteq
                          {"scrapes_total", "last_scrape_error", "scrape_errors_total", "up"}
                   /\ Emitted(r, "scrapes_total", TotalScrapes)
                   /\ \A l \in Labels :
                          ScrapeErrors[l] > 0 <=>
                              Sample("scrape_errors_total", l, ScrapeErrors[l]) \in out[r].book

\* a cycle whose open failed has sent the total and an error counter an earlier
\* cycle left
C19_Witness ==
    \E r \in Requests :
        /\ Collected(r)
        /\ OpenHasFailed(r)
        /\ "scrapes_total" \in BookNames(r)
        /\ "scrape_errors_total" \in BookNames(r)

\* statdump after its Scrape returned an error: the samples of the rows read before
\* are in the output, and once the goroutine is past the counter it has counted one
\* error
FailedRowStops ==
    \A r \in Requests :
        LET u == unit[r]["ScrapeStatdump"]
        IN /\ u.pc = "parseerror" =>
                 u.failed /\ u.incs = 0 /\ out[r].duration["ScrapeStatdump"] = 0
           /\ u.failed =>
                 /\ out[r].data["ScrapeStatdump"] = u.rows * SamplesPerRow("ScrapeStatdump")
                 /\ u.pc \in {"errorset", "duration", "sent", "done"} => u.incs = 1

\* the step in which ParseFloat fails sends nothing; the next step of the goroutine
\* counts the error for "collect.statdump"; no sample of statdump follows
NothingAfterFailedRow ==
    \A r \in Requests :
        LET s == "ScrapeStatdump"
        IN /\ unit[r][s].pc = "rows" /\ unit'[r][s].pc = "parseerror" =>
                 out'[r] = out[r] /\ unit'[r][s].rows = unit[r][s].rows
           /\ unit[r][s].pc = "parseerror" /\ unit'[r][s] # unit[r][s] /\ pc'[r] # "idle" =>
                 /\ unit'[r][s].pc = "errorset"
                 /\ unit'[r][s].incs = 1
                 /\ ScrapeErrors'[Label(s)] = ScrapeErrors[Label(s)] + 1
           /\ unit[r][s].failed /\ pc'[r] # "idle" =>
                 /\ out'[r].data[s] = out[r].data[s]
                 /\ unit'[r][s].rows = unit[r][s].rows
                 /\ unit'[r][s].incs >= unit[r][s].incs

\* C20: in the statdump scraper a row whose value does not parse makes the scrape
\* fail at that row: the samples of the earlier rows are in the output and stay, no
\* sample is sent for that row or a later one, and the failure is counted as one
\* error for "collect.statdump".
C20_ParseErrorStopsStatdump == []FailedRowStops /\ [][NothingAfterFailedRow]_vars

\* the value of the second row did not parse, the sample of the first is in the output
C20_Witness ==
    \E r \in Requests :
        /\ unit[r]["ScrapeStatdump"].pc = "parseerror"
        /\ database.rows = 2
        /\ unit[r]["ScrapeStatdump"].rows = 1
        /\ out[r].data["ScrapeStatdump"] = 1
        /\ ctx[r].err = "none"

\* the scraper goroutines of the cycle of request r that have not finished
Unfinished(r) == {s \in AllScrapers : unit[r][s].pc \notin {"none", "done"}}

\* a handle that is closed has no goroutine left that could use it
ClosedAfterJoin ==
    \A r \in Requests :
        db[r].state = "closed" =>
            /\ Unfinished(r) = {}
            /\ wg[r] = 0
            /\ Launched(r) = filteredScrapers[r]

\* db.Close() runs when every launched goroutine is done, and no goroutine takes a
\* step once the handle is closed
CloseIsLast ==
    \A r \in Requests :
        /\ db[r].state = "open" /\ db'[r].state = "closed" =>
               Unfinished(r) = {} /\ wg[r] = 0
        /\ db[r].state = "closed" /\ pc'[r] # "idle" => unit'[r] = unit[r]

\* C21: within a cycle the connection is closed only after every launched scraper
\* unit has finished: the deferred join runs before the deferred close, so no
\* scraper runs or issues a query against a connection that is already closed.
C21_CloseAfterJoin == []ClosedAfterJoin /\ [][CloseIsLast]_vars

\* the handle of a cycle is closed after its two scraper goroutines finished, one of
\* them having read a row
C21_Witness ==
    \E r \in Requests :
        /\ db[r].state = "closed"
        /\ closes[r] = 1
        /\ Cardinality({s \in AllScrapers : unit[r][s].pc = "done"}) >= 2
        /\ \E s \in AllScrapers : unit[r][s].rows > 0

\* every scraper selected, launched or heard from is enabled by the startup flags
RunsWithinEnabled ==
    \A r \in Requests :
        /\ filteredScrapers[r] \subseteq enabledScrapers
        /\ Launched(r) \subseteq enabledScrapers
        /\ \A s \in AllScrapers :
               out[r].data[s] > 0 \/ out[r].duration[s] > 0 => s \in enabledScrapers

\* the handler's step keeps no scraper the flags disabled, whatever collect[] names
FilterOnlyNarrows ==
    \A r \in Requests :
        Handled(r) =>
            /\ filteredScrapers'[r] \subseteq enabledScrapers
            /\ \A s \in Named(request[r].params, AllScrapers) \ enabledScrapers :
                   s \notin filteredScrapers'[r]

\* C22: for every request the scrapers run are a subset of the scrapers enabled by
\* the startup flags: naming a registered scraper in collect[] does not run it if
\* it was disabled at startup; the request filter narrows the enabled set and never
\* widens it.
C22_RunsOnlyEnabled == []RunsWithinEnabled /\ [][FilterOnlyNarrows]_vars

\* collect[] names spacedb, which the flags disabled, and statdump: statdump alone
\* is selected
C22_Witness ==
    \E r \in Requests :
        /\ pc[r] = "parsed"
        /\ request[r].params = <<"spacedb", "statdump">>
        /\ enabledScrapers = {"ScrapeBrokerStatus", "ScrapeStatdump"}
        /\ filteredScrapers[r] = {"ScrapeStatdump"}

====
